---- MODULE Spec2Model ----
(***************************************************************************)
(* A model of bundler.cpp (dylibbundler): dependency collection, fixed     *)
(* point expansion, destination preparation and the install phase.         *)
(*                                                                         *)
(* Strings that denote paths are modelled split at "/":                    *)
(*   "/opt/lib/libX.dylib"  is  <<"", "opt", "lib", "libX.dylib">>         *)
(*   "/opt/lib/"            is  <<"", "opt", "lib", "">>                   *)
(*   "libX.dylib"           is  <<"libX.dylib">>                           *)
(*   ""                     is  <<"">>                                     *)
(* so that prefix tests, rfind("/") and concatenation of a directory with  *)
(* a name are computed as the code computes them.                          *)
(***************************************************************************)
EXTENDS Integers, Sequences, FiniteSets, TLC

\* ------------------------------------------------------------ bounds

\* Longest chain of libraries L1 -> L2 -> ... in the generated chain worlds.
MaxChain == 3
\* Number of times the whole pipeline is run on the same disk.
MaxRuns == 2
\* External invocations that may fail during one run.
MaxFailures == 2

\* ------------------------------------------------------------ strings

EmptyStr == <<"">>
\* The value of a lookup that found nothing (realpath returning NULL).
NoPath == <<>>

Front(s) == SubSeq(s, 1, Len(s) - 1)
Last(s) == s[Len(s)]

\* a + b for a string a that is empty or ends with "/".
Cat(a, b) == Front(a) \o b

\* in.substr(in.rfind("/") + 1)
stripPrefix(in) == <<Last(in)>>

\* original_file.substr(0, original_file.rfind("/") + 1)
DirOf(in) == Front(in) \o <<"">>

\* s.find(p) == 0 for a p that ends with "/".
StartsWith(s, p) ==
    /\ Len(s) >= Len(p)
    /\ SubSeq(s, 1, Len(p) - 1) = Front(p)

\* s.find(mark) != npos, for a mark that holds no "/": some component holds it.
FrameworkNames == {"Cocoa.framework", "Foo.framework"}
HasFramework(s) == \E i \in 1..Len(s) : s[i] \in FrameworkNames
HasComp(s, c) == \E i \in 1..Len(s) : s[i] = c

\* Appends "/" when the string does not end with one.
WithSlash(s) == IF Last(s) # "" THEN s \o <<"">> ELSE s

isRpath(path) == path[1] = "@rpath" \/ path[1] = "@loader_path"

\* std::regex_replace(rpath_file, std::regex("^@[a-z_]+path/"), "")
StripMarker(path) ==
    IF Len(path) >= 2 /\ path[1] \in {"@rpath", "@loader_path", "@executable_path"}
    THEN Tail(path) ELSE path

\* std::regex_replace(path, std::regex(marker + "/"), file_prefix)
RECURSIVE ReplaceMarker(_, _, _)
ReplaceMarker(path, marker, file_prefix) ==
    IF Len(path) <= 1 THEN path
    ELSE IF Head(path) = marker
         THEN Front(file_prefix) \o ReplaceMarker(Tail(path), marker, file_prefix)
         ELSE <<Head(path)>> \o ReplaceMarker(Tail(path), marker, file_prefix)

\* ------------------------------------------------------------ directories

AppBin == <<"", "app", "bin", "">>
AppLib == <<"", "app", "lib", "">>
OptLib == <<"", "opt", "lib", "">>
OptAlt == <<"", "opt", "alt", "">>
OptLnk == <<"", "opt", "lnk", "">>
OptIgn == <<"", "opt", "ign", "">>
OptIgnSub == <<"", "opt", "ign", "sub", "">>
OptS1 == <<"", "opt", "s1", "">>
OptS2 == <<"", "opt", "s2", "">>
OptUser == <<"", "opt", "user", "">>
Gone == <<"", "gone", "">>
UsrLib == <<"", "usr", "lib", "">>
SysLib == <<"", "System", "Library", "">>
CocoaDir == <<"", "System", "Library", "Frameworks", "Cocoa.framework", "">>
FooDir == <<"", "Library", "Frameworks", "Foo.framework", "">>

File(dir, name) == Cat(dir, <<name>>)

\* Settings::dest_folder_str and Settings::inside_path_str, as set by -d and
\* left at the default.
dest_folder_str == <<"", "app", "libs", "">>
inside_path_str == <<"@executable_path", "..", "libs", "">>

\* ------------------------------------------------------------ worlds
\* A world is what the program finds outside itself: the binaries on disk with
\* what otool reports for each (load commands, LC_RPATH entries), the symbolic
\* links, the environment's search paths, the directories the user may answer
\* a prompt with, and the command line (-x, -s, -i).

Bin(refs, rpaths) == [refs |-> refs, rpaths |-> rpaths]

ExeA == File(AppBin, "A")
ExeB == File(AppBin, "B")
LibX == File(OptLib, "libX.dylib")
LibY == File(OptLib, "libY.dylib")
LibZ == File(OptLib, "libZ.dylib")
RpathY == <<"@rpath", "libY.dylib">>

NoLinks == [p \in {} |-> NoPath]

\* The scenario of the specification: A -> [libX, @rpath/libY], rpath /opt/lib/.
WorldRpathAbs ==
    [files |-> <<ExeA>>,
     bin |-> (ExeA :> Bin(<<LibX, RpathY>>, <<OptLib>>))
          @@ (LibX :> Bin(<<>>, <<>>))
          @@ (LibY :> Bin(<<LibX>>, <<>>)),
     links |-> NoLinks,
     ignore |-> <<>>, search |-> <<>>, env |-> <<>>,
     userdirs |-> {OptLib}]

\* The same with rpath entries relative to the loader; libY exists under two
\* of them.
WorldRpathLoader ==
    [files |-> <<ExeA>>,
     bin |-> (ExeA :> Bin(<<LibX, RpathY>>,
                          <<<<"@loader_path", "..", "nolib", "">>,
                            <<"@loader_path", "..", "lib">>,
                            <<"@loader_path", "..", "..", "opt", "lib", "">>>>))
          @@ (LibX :> Bin(<<RpathY>>, <<>>))
          @@ (LibY :> Bin(<<LibX>>, <<>>))
          @@ (File(AppLib, "libY.dylib") :> Bin(<<LibX>>, <<>>)),
     links |-> NoLinks,
     ignore |-> <<>>, search |-> <<>>, env |-> <<>>,
     userdirs |-> {}]

\* One library reached by its path, by two symbolic links and by a link in
\* another directory, from three files.
AliasBin ==
       (ExeA :> Bin(<<File(OptLib, "libX.1.dylib"), LibZ>>, <<>>))
    @@ (ExeB :> Bin(<<LibX, File(OptLnk, "libX.dylib")>>, <<>>))
    @@ (LibX :> Bin(<<>>, <<>>))
    @@ (LibZ :> Bin(<<File(OptLib, "libX.2.dylib")>>, <<>>))
AliasLinks ==
       (File(OptLib, "libX.1.dylib") :> LibX)
    @@ (File(OptLib, "libX.2.dylib") :> LibX)
    @@ (File(OptLnk, "libX.dylib") :> LibX)
WorldAlias ==
    [files |-> <<ExeA, ExeB>>, bin |-> AliasBin, links |-> AliasLinks,
     ignore |-> <<>>, search |-> <<>>, env |-> <<>>, userdirs |-> {}]
WorldAliasRev ==
    [files |-> <<ExeB, ExeA>>, bin |-> AliasBin, links |-> AliasLinks,
     ignore |-> <<>>, search |-> <<>>, env |-> <<>>, userdirs |-> {}]

\* System libraries, frameworks and an ignored prefix, reached literally,
\* through links, through @rpath and through a search path.
WorldFilter ==
    [files |-> <<ExeA>>,
     bin |-> (ExeA :> Bin(<<File(UsrLib, "libSystem.B.dylib"),
                            Cat(CocoaDir, <<"Versions", "A", "Cocoa">>),
                            File(OptLib, "libsys.dylib"),
                            <<"libbare.dylib">>,
                            File(OptIgn, "libI.dylib"),
                            File(OptIgnSub, "libN.dylib"),
                            File(OptLib, "libfw.dylib"),
                            LibX,
                            <<"@rpath", "libR.dylib">>>>, <<>>))
          @@ (LibX :> Bin(<<File(OptLib, "libI.dylib")>>, <<>>))
          @@ (File(OptIgn, "libI.dylib") :> Bin(<<>>, <<>>))
          @@ (File(OptIgnSub, "libN.dylib") :> Bin(<<>>, <<>>))
          @@ (File(UsrLib, "libSystem.B.dylib") :> Bin(<<>>, <<>>))
          @@ (File(UsrLib, "libsys.dylib") :> Bin(<<>>, <<>>))
          @@ (File(UsrLib, "libbare.dylib") :> Bin(<<>>, <<>>))
          @@ (File(UsrLib, "libR.dylib") :> Bin(<<>>, <<>>))
          @@ (File(FooDir, "Foo") :> Bin(<<>>, <<>>)),
     links |-> (File(OptLib, "libsys.dylib") :> File(UsrLib, "libsys.dylib"))
            @@ (File(OptLib, "libfw.dylib") :> File(FooDir, "Foo"))
            @@ (File(OptLib, "libI.dylib") :> File(OptIgn, "libI.dylib")),
     ignore |-> <<OptIgn>>, search |-> <<UsrLib>>, env |-> <<>>,
     userdirs |-> {}]

\* Two different files with one file name.
WorldSameName ==
    [files |-> <<ExeA>>,
     bin |-> (ExeA :> Bin(<<LibX, File(OptAlt, "libX.dylib"),
                            File(OptLnk, "libX.3.dylib")>>, <<>>))
          @@ (LibX :> Bin(<<>>, <<>>))
          @@ (File(OptAlt, "libX.dylib") :> Bin(<<LibZ>>, <<>>))
          @@ (LibZ :> Bin(<<>>, <<>>)),
     links |-> (File(OptLnk, "libX.3.dylib") :> File(OptAlt, "libX.dylib")),
     ignore |-> <<>>, search |-> <<>>, env |-> <<>>, userdirs |-> {}]

\* References without a usable directory: a bare name found in two search
\* paths, and a path that does not exist, found only where the user says.
WorldMissing ==
    [files |-> <<ExeA>>,
     bin |-> (ExeA :> Bin(<<<<"libM.dylib">>, File(Gone, "libG.dylib"), LibX>>,
                          <<>>))
          @@ (LibX :> Bin(<<>>, <<>>))
          @@ (File(OptS1, "libM.dylib") :> Bin(<<>>, <<>>))
          @@ (File(OptS2, "libM.dylib") :> Bin(<<LibX>>, <<>>))
          @@ (File(OptUser, "libG.dylib") :> Bin(<<>>, <<>>)),
     links |-> NoLinks,
     ignore |-> <<>>, search |-> <<OptS2>>, env |-> <<OptS1>>,
     userdirs |-> {OptUser}]

\* The same without -s, so that the environment's paths are used.
WorldMissingEnv ==
    [WorldMissing EXCEPT !.search = <<>>, !.env = <<OptS1, OptS2>>]

\* A -> L1 -> L2 -> ... -> Lk -> L1: a cycle through every library.
LibNames == <<"libL1.dylib", "libL2.dylib", "libL3.dylib", "libL4.dylib",
              "libL5.dylib", "libL6.dylib">>
ChainLib(i) == File(OptLib, LibNames[i])
WorldChain(k) ==
    [files |-> <<ExeA>>,
     bin |-> (ExeA :> Bin(<<ChainLib(1)>>, <<>>))
          @@ [p \in {ChainLib(i) : i \in 1..k} |->
                LET i == CHOOSE j \in 1..k : ChainLib(j) = p
                IN  Bin(<<ChainLib(IF i < k THEN i + 1 ELSE 1)>>, <<>>)],
     links |-> NoLinks,
     ignore |-> <<>>, search |-> <<>>, env |-> <<>>, userdirs |-> {}]

AllWorlds == <<WorldRpathAbs, WorldRpathLoader, WorldAlias, WorldAliasRev,
               WorldFilter, WorldSameName, WorldMissing, WorldMissingEnv>>
             \o [k \in 1..MaxChain |-> WorldChain(k)]
WorldIds == 1..Len(AllWorlds)

\* ------------------------------------------------------------ state

VARIABLES
    world,              \* the world the run is in (one of AllWorlds)
    settings,           \* Settings:: the four permissions and bundleLibs_bool
    searchPaths,        \* Settings::searchPaths
    disk,               \* the binaries on disk: path -> what otool reports
    dest_exists,        \* whether the destination directory exists
    machine,            \* what `machine` prints: "arm", "x86", or not yet asked
    deps,               \* std::vector<Dependency> deps
    deps_per_file,      \* std::map<string, vector<Dependency>>
    deps_collected,     \* the keys of std::map<string, bool> deps_collected
    rpaths_per_file,    \* std::map<string, vector<string>>
    rpath_to_fullpath,  \* std::map<string, string>
    missing_prefixes,   \* bool missing_prefixes
    pc,                 \* where the program is
    ctl,                \* the locals of the running loops
    status,             \* the exit status, once pc = "exit"
    issued,             \* every mutating external invocation so far, in order
    failures,           \* invocations that failed without the disk forcing it
    run,                \* which run of the pipeline this is
    passes,             \* passes of collectSubDependencies' while loop
    seen,               \* every reference addDependency was handed
    ended               \* the destination's files at each successful end

vars == <<world, settings, searchPaths, disk, dest_exists, machine, deps,
          deps_per_file, deps_collected, rpaths_per_file, rpath_to_fullpath,
          missing_prefixes, pc, ctl, status, issued, failures, run, passes,
          seen, ended>>

W == world
\* Settings::files, as -x filled it.
files == W.files
\* Settings::ignore_prefix, called for each -i.
ignore_prefix(prefix) == WithSlash(prefix)
prefixes_to_ignore == [n \in 1..Len(W.ignore) |-> ignore_prefix(W.ignore[n])]

\* ------------------------------------------------------------ file system

\* An absolute path with "." free of "..", "//" and a trailing "/".
RECURSIVE Norm(_, _)
Norm(acc, rest) ==
    IF rest = <<>> THEN acc
    ELSE IF Head(rest) = ".."
         THEN Norm(IF Len(acc) > 1 THEN Front(acc) ELSE acc, Tail(rest))
         ELSE IF Head(rest) = "" THEN Norm(acc, Tail(rest))
              ELSE Norm(Append(acc, Head(rest)), Tail(rest))
Canon(p) ==
    IF Len(p) >= 2 /\ p[1] = "" THEN Norm(<<"">>, Tail(p)) ELSE NoPath

\* realpath(3) on the files of d: the canonical path, or NoPath for NULL.
\* Relative paths are resolved against a working directory that holds none
\* of the files.
Followed(c, links) == IF c \in DOMAIN links THEN links[c] ELSE c
Present(c, t, d) ==
    IF c # NoPath /\ Len(c) >= 2 /\ t \in DOMAIN d THEN t ELSE NoPath
Resolved(c, d) == Present(c, Followed(c, W.links), d)
realpath(p, d) == Resolved(Canon(p), d)

fileExistsIn(p, d) == realpath(p, d) # NoPath
fileExists(p) == fileExistsIn(p, disk)

\* The files under the destination directory.
InDest(p) == Len(p) = Len(dest_folder_str) /\ DirOf(p) = dest_folder_str
DestFiles(d) == {p \in DOMAIN d : InDest(p)}

\* ------------------------------------------------------------ Settings

\* isSystemLibrary testing for /System/Library/ only.
isSystemLibraryPartly(prefix) == StartsWith(prefix, SysLib)

isSystemLibrary(prefix) ==
    StartsWith(prefix, UsrLib) \/ StartsWith(prefix, SysLib)

\* isPrefixIgnored finding no prefix in the list.
isPrefixIgnoredNever(prefix) == FALSE

isPrefixIgnored(prefix) ==
    \E n \in 1..Len(prefixes_to_ignore) : prefix = prefixes_to_ignore[n]

isPrefixBundled(prefix) ==
    /\ ~HasFramework(prefix)
    /\ ~HasComp(prefix, "@executable_path")
    /\ ~isSystemLibrary(prefix)
    /\ ~isPrefixIgnored(prefix)

\* initSearchPaths(): the environment's paths, each ending with "/".
initSearchPaths == [n \in 1..Len(W.env) |-> WithSlash(W.env[n])]

MinOf(S) == CHOOSE x \in S : \A y \in S : x <= y

\* ------------------------------------------------------------ prompting

\* What the user types at the prompt.
Quit == <<"quit">>
Answers == {Quit} \cup W.userdirs

\* getUserInputDirForFile(filename) with search paths sp. again: the answer
\* names a directory without the file, and the prompt is repeated.
getUserInputDirForFile(filename, sp, answer) ==
    LET hits == {n \in 1..Len(sp) : fileExists(Cat(WithSlash(sp[n]), filename))}
        prefix == WithSlash(answer)
    IN  IF hits # {}
        THEN [dir |-> WithSlash(sp[MinOf(hits)]), sp |-> sp, quit |-> FALSE,
              asked |-> FALSE, again |-> FALSE]
        ELSE IF answer = Quit
        THEN [dir |-> EmptyStr, sp |-> sp, quit |-> TRUE, asked |-> TRUE,
              again |-> FALSE]
        ELSE IF ~fileExists(Cat(prefix, filename))
        THEN [dir |-> EmptyStr, sp |-> sp, quit |-> FALSE, asked |-> TRUE,
              again |-> TRUE]
        ELSE [dir |-> prefix, sp |-> Append(sp, prefix), quit |-> FALSE,
              asked |-> TRUE, again |-> FALSE]

\* ------------------------------------------------------------ rpaths

\* The lambda check_path of searchFilenameInRpaths: the canonical path it
\* stores in fullpath, or NoPath when it returns false.
check_path(path, rpath_file, dependent_file) ==
    LET file_prefix == DirOf(dependent_file)
        path_to_check ==
            IF HasComp(path, "@loader_path")
            THEN ReplaceMarker(path, "@loader_path", file_prefix)
            ELSE IF HasComp(path, "@rpath")
                 THEN ReplaceMarker(path, "@rpath", file_prefix)
                 ELSE EmptyStr
    IN  IF dependent_file # rpath_file
        THEN realpath(path_to_check, disk)
        ELSE NoPath

\* searchFilenameInRpaths works on the globals g = [sp, rpf, cache, miss]
\* (searchPaths, rpaths_per_file, rpath_to_fullpath, missing_prefixes) and
\* yields the path returned and the globals afterwards.

\* Its first part, once check_path has been tried on the reference itself
\* (direct) and on each rpath entry of the file (tries): the cached path, the
\* path beside the file, or the first rpath entry that holds the file.
RpathFound(rpath_file, dependent_file, g, direct, tries) ==
    LET cached == rpath_file \in DOMAIN g.cache
        looped == ~cached /\ direct = NoPath
        hitsR == {i \in 1..Len(tries) : tries[i] # NoPath}
        found == IF cached THEN g.cache[rpath_file]
                 ELSE IF direct # NoPath THEN direct
                 ELSE IF hitsR # {} THEN tries[MinOf(hitsR)] ELSE NoPath
    IN  [found |-> found,
         g |-> [g EXCEPT
                 \* rpaths_per_file[dependent_file] default-constructs a
                 \* missing entry
                 !.rpf = IF looped /\ dependent_file \notin DOMAIN @
                         THEN @ @@ (dependent_file :> <<>>) ELSE @,
                 !.cache = IF ~cached /\ found # NoPath
                           THEN @ @@ (rpath_file :> found) ELSE @]]

RpathLookup(rpath_file, dependent_file, g) ==
    LET suffix == StripMarker(rpath_file)
        rps == IF dependent_file \in DOMAIN g.rpf
               THEN g.rpf[dependent_file] ELSE <<>>
    IN  RpathFound(rpath_file, dependent_file, g,
                   check_path(rpath_file, rpath_file, dependent_file),
                   [i \in 1..Len(rps) |->
                      check_path(Cat(WithSlash(rps[i]), suffix), rpath_file,
                                 dependent_file)])

\* Its last part: the user was asked (u) for the directory of suffix.
RpathAsked(suffix, g1, u) ==
    IF u.quit \/ u.again
    THEN [fullpath |-> EmptyStr, g |-> g1, quit |-> u.quit, asked |-> TRUE,
          again |-> u.again]
    ELSE [fullpath |-> IF realpath(Cat(u.dir, suffix), disk) # NoPath
                       THEN realpath(Cat(u.dir, suffix), disk)
                       ELSE Cat(u.dir, suffix),
          g |-> [g1 EXCEPT !.sp = u.sp],
          quit |-> FALSE, asked |-> u.asked, again |-> FALSE]

\* Its second part, after the lookup lk: the search paths, then the user.
RpathSearch(suffix, answer, lk) ==
    LET hitsS == {n \in 1..Len(lk.g.sp) : fileExists(Cat(lk.g.sp[n], suffix))}
    IN  IF lk.found # NoPath
        THEN [fullpath |-> lk.found, g |-> lk.g, quit |-> FALSE,
              asked |-> FALSE, again |-> FALSE]
        ELSE IF hitsS # {}
        THEN [fullpath |-> Cat(lk.g.sp[MinOf(hitsS)], suffix), g |-> lk.g,
              quit |-> FALSE, asked |-> FALSE, again |-> FALSE]
        ELSE RpathAsked(suffix, lk.g,
                        getUserInputDirForFile(suffix, lk.g.sp, answer))

searchFilenameInRpaths(rpath_file, dependent_file, g, answer) ==
    RpathSearch(StripMarker(rpath_file), answer,
                RpathLookup(rpath_file, dependent_file, g))

\* ------------------------------------------------------------ Dependency

NewDep(filename, prefix, symlinks, new_name) ==
    [filename |-> filename, prefix |-> prefix, symlinks |-> symlinks,
     new_name |-> new_name]

getOriginalPath(dep) == Cat(dep.prefix, <<dep.filename>>)
getInstallPath(dep) == Cat(dest_folder_str, <<dep.new_name>>)
getInnerPath(dep) == Cat(inside_path_str, <<dep.new_name>>)

\* Dependency::addSymlink on the vector symlinks.
addSymlink(symlinks, s) ==
    IF \E i \in 1..Len(symlinks) : symlinks[i] = s THEN symlinks
    ELSE Append(symlinks, s)

RECURSIVE addSymlinks(_, _)
addSymlinks(symlinks, more) ==
    IF more = <<>> THEN symlinks
    ELSE addSymlinks(addSymlink(symlinks, Head(more)), Tail(more))

\* mergeIfSameAs without the loop that hands the symlinks over.
mergeIfSameAsOnly(this, dep2) ==
    [same |-> dep2.filename = this.filename, dep2 |-> dep2]

\* mergeIfSameAs never recognising the file.
mergeIfSameAsNever(this, dep2) == [same |-> FALSE, dep2 |-> dep2]

\* this->mergeIfSameAs(dep2): whether it returns true, and dep2 afterwards.
mergeIfSameAs(this, dep2) ==
    IF dep2.filename = this.filename
    THEN [same |-> TRUE,
          dep2 |-> [dep2 EXCEPT !.symlinks = addSymlinks(@, this.symlinks)]]
    ELSE [same |-> FALSE, dep2 |-> dep2]

\* Dependency::Dependency(path, dependent_file) works on the same globals
\* and yields the object built and the globals afterwards; quit: the user
\* typed 'quit'.

\* The first part: original_file.
Resolve(path, dependent_file, g, answer) ==
    IF isRpath(path)
    THEN searchFilenameInRpaths(path, dependent_file, g, answer)
    ELSE [fullpath |-> IF realpath(path, disk) # NoPath
                       THEN realpath(path, disk) ELSE path,
          g |-> g, quit |-> FALSE, asked |-> FALSE, again |-> FALSE]

\* prefix.empty() || !fileExists(prefix + filename)
Unknown(prefix, filename) ==
    prefix = EmptyStr \/ ~fileExists(Cat(prefix, <<filename>>))

\* The loop over the search paths, for a library in no known location.
SearchPrefix(filename, prefix, g) ==
    LET sp1 == IF Len(g.sp) = 0 THEN initSearchPaths ELSE g.sp
        hits == {i \in 1..Len(sp1) : fileExists(Cat(sp1[i], <<filename>>))}
    IN  IF ~Unknown(prefix, filename) THEN [prefix |-> prefix, g |-> g]
        ELSE IF hits # {}
        THEN [prefix |-> sp1[MinOf(hits)],
              g |-> [g EXCEPT !.sp = sp1, !.miss = TRUE]]
        ELSE [prefix |-> prefix, g |-> [g EXCEPT !.sp = sp1]]

\* The last part: the location is still unknown and the user was asked (u).
DepAsked(dep, g, asked, u) ==
    [dep |-> dep,
     g |-> [g EXCEPT !.miss = TRUE,
                     !.sp = IF u.quit \/ u.again THEN @
                            ELSE Append(u.sp, u.dir)],
     quit |-> u.quit, asked |-> asked \/ u.asked, again |-> u.again]

\* After the search paths (s): ask the user if need be; new_name = filename.
DepSearched(filename, symlinks, asked, answer, s) ==
    IF ~isPrefixIgnored(s.prefix) /\ Unknown(s.prefix, filename)
    THEN DepAsked(NewDep(filename, s.prefix, symlinks, filename), s.g, asked,
                  getUserInputDirForFile(<<filename>>, s.g.sp, answer))
    ELSE [dep |-> NewDep(filename, s.prefix, symlinks, filename), g |-> s.g,
          quit |-> FALSE, asked |-> asked, again |-> FALSE]

\* After original_file is known (r): symlinks, filename, prefix.
DepResolved(path, answer, r) ==
    LET symlinks == IF r.fullpath # path THEN <<path>> ELSE <<>>
        filename == Last(r.fullpath)
        prefix == DirOf(r.fullpath)
    IN  IF r.quit \/ r.again
        THEN [dep |-> NewDep("", EmptyStr, <<>>, ""), g |-> r.g,
              quit |-> r.quit, asked |-> TRUE, again |-> r.again]
        ELSE IF ~isPrefixBundled(prefix)
        THEN [dep |-> NewDep(filename, prefix, symlinks, ""), g |-> r.g,
              quit |-> FALSE, asked |-> r.asked, again |-> FALSE]
        ELSE DepSearched(filename, symlinks, r.asked, answer,
                         SearchPrefix(filename, prefix, r.g))

Dependency(path, dependent_file, g, answer) ==
    DepResolved(path, answer, Resolve(path, dependent_file, g, answer))

\* addDependency reading deps_per_file[filename] only after the
\* isPrefixBundled test.
addDependencyLate(dep, filename, ds, dpf) ==
    LET merged == [n \in 1..Len(ds) |-> mergeIfSameAs(dep, ds[n])]
        ds1 == [n \in 1..Len(ds) |-> merged[n].dep2]
        dpf1 == IF filename \in DOMAIN dpf THEN dpf
                ELSE dpf @@ (filename :> <<>>)
    IN  IF ~isPrefixBundled(dep.prefix)
        THEN [deps |-> ds1, dpf |-> dpf]
        ELSE [deps |-> IF \E n \in 1..Len(ds) : merged[n].same
                       THEN ds1 ELSE Append(ds1, dep),
              dpf |-> IF \E n \in 1..Len(dpf1[filename]) :
                            mergeIfSameAs(dep, dpf1[filename][n]).same
                      THEN dpf1
                      ELSE [dpf1 EXCEPT ![filename] = Append(@, dep)]]

\* addDependency appending to deps_per_file[filename] whatever the list
\* holds.
addDependencyAnyway(dep, filename, ds, dpf) ==
    LET merged == [n \in 1..Len(ds) |-> mergeIfSameAs(dep, ds[n])]
        ds1 == [n \in 1..Len(ds) |-> merged[n].dep2]
        dpf1 == IF filename \in DOMAIN dpf THEN dpf
                ELSE dpf @@ (filename :> <<>>)
    IN  IF ~isPrefixBundled(dep.prefix)
        THEN [deps |-> ds1, dpf |-> dpf1]
        ELSE [deps |-> IF \E n \in 1..Len(ds) : merged[n].same
                       THEN ds1 ELSE Append(ds1, dep),
              dpf |-> [dpf1 EXCEPT ![filename] = Append(@, dep)]]

\* addDependency(path, filename) once dep is built: deps and deps_per_file
\* afterwards.
addDependency(dep, filename, ds, dpf) ==
    LET merged == [n \in 1..Len(ds) |-> mergeIfSameAs(dep, ds[n])]
        in_deps == \E n \in 1..Len(ds) : merged[n].same
        ds1 == [n \in 1..Len(ds) |-> merged[n].dep2]
        \* deps_per_file[filename] default-constructs a missing entry; the
        \* merge below is into a copy of the vector and is lost
        dpf1 == IF filename \in DOMAIN dpf THEN dpf
                ELSE dpf @@ (filename :> <<>>)
        deps_in_file == dpf1[filename]
        in_deps_per_file ==
            \E n \in 1..Len(deps_in_file) :
                mergeIfSameAs(dep, deps_in_file[n]).same
    IN  IF ~isPrefixBundled(dep.prefix)
        THEN [deps |-> ds1, dpf |-> dpf1]
        ELSE [deps |-> IF in_deps THEN ds1 ELSE Append(ds1, dep),
              dpf |-> IF in_deps_per_file THEN dpf1
                      ELSE [dpf1 EXCEPT ![filename] = Append(@, dep)]]

\* ------------------------------------------------------------ external tools

\* One entry of issued: the tool run, the file it acts on, its two other
\* arguments and whether it returned 0.
Cmd(op, file, old, new, ok) ==
    [op |-> op, file |-> file, old |-> old, new |-> new, ok |-> ok]

Put(d, p, v) == [x \in DOMAIN d \cup {p} |-> IF x = p THEN v ELSE d[x]]

RECURSIVE Subst(_, _, _)
Subst(refs, old, new) ==
    IF refs = <<>> THEN <<>>
    ELSE <<IF Head(refs) = old THEN new ELSE Head(refs)>>
         \o Subst(Tail(refs), old, new)

\* What a successful install_name_tool -change leaves on disk.
Changed(d, file, old, new) ==
    LET real == realpath(file, d)
    IN  Put(d, real, [d[real] EXCEPT !.refs = Subst(@, old, new)])

\* What a successful install_name_tool -rpath leaves on disk.
Rpathed(d, file, old, new) ==
    LET real == realpath(file, d)
    IN  Put(d, real, [d[real] EXCEPT !.rpaths = Subst(@, old, new)])

\* copyFile(from, to) on disk d; f = 1 makes cp fail, f = 2 chmod.
copyFile(from, to, d, dirOk, f) ==
    LET override == settings.overwrite_files
        src == realpath(from, d)
        cpOk == src # NoPath /\ dirOk /\ f # 1
        d1 == IF from # to /\ cpOk THEN Put(d, to, d[src]) ELSE d
        chmodOk == fileExistsIn(to, d1) /\ f # 2
        cp == IF from # to THEN <<Cmd("cp", to, from, to, cpOk)>> ELSE <<>>
    IN  IF from # to /\ ~override /\ fileExistsIn(to, d)
        THEN [log |-> <<>>, disk |-> d, exit |-> TRUE]
        ELSE IF from # to /\ ~cpOk
        THEN [log |-> cp, disk |-> d, exit |-> TRUE]
        ELSE [log |-> cp \o <<Cmd("chmod", to, EmptyStr, EmptyStr, chmodOk)>>,
              disk |-> d1, exit |-> ~chmodOk]

\* Dependency::copyYourself() going on after a failed install_name_tool -id.
copyYourselfOn(dep, d, dirOk, f) ==
    LET c == copyFile(getOriginalPath(dep), getInstallPath(dep), d, dirOk, f)
    IN  IF c.exit THEN c
        ELSE [log |-> c.log \o <<Cmd("id", getInstallPath(dep), EmptyStr,
                                     getInnerPath(dep), f # 3)>>,
              disk |-> c.disk, exit |-> FALSE]

\* copyYourself with install_name_tool -id issued ahead of the copy.
copyYourselfIdFirst(dep, d, dirOk, f) ==
    LET c == copyFile(getOriginalPath(dep), getInstallPath(dep), d, dirOk, f)
        idOk == fileExistsIn(getInstallPath(dep), c.disk) /\ f # 3
    IN  IF c.exit THEN c
        ELSE [log |-> <<Cmd("id", getInstallPath(dep), EmptyStr,
                            getInnerPath(dep), idOk)>> \o c.log,
              disk |-> c.disk, exit |-> ~idOk]

\* Dependency::copyYourself(); f = 3 makes install_name_tool -id fail.
copyYourself(dep, d, dirOk, f) ==
    LET c == copyFile(getOriginalPath(dep), getInstallPath(dep), d, dirOk, f)
        idOk == fileExistsIn(getInstallPath(dep), c.disk) /\ f # 3
    IN  IF c.exit THEN c
        ELSE [log |-> c.log \o <<Cmd("id", getInstallPath(dep), EmptyStr,
                                     getInnerPath(dep), idOk)>>,
              disk |-> c.disk, exit |-> ~idOk]

\* fixFileThatDependsOnMe without the part under missing_prefixes.
fixFileThatDependsOnMeStrict(dep, miss) ==
    <<<<getOriginalPath(dep), getInnerPath(dep)>>>>
    \o [n \in 1..Len(dep.symlinks) |-> <<dep.symlinks[n], getInnerPath(dep)>>]

\* The install_name_tool -change invocations of
\* Dependency::fixFileThatDependsOnMe(file_to_fix), as <<old, new>> pairs.
fixFileThatDependsOnMe(dep, miss) ==
    LET sym == [n \in 1..Len(dep.symlinks) |->
                  <<dep.symlinks[n], getInnerPath(dep)>>]
    IN  <<<<getOriginalPath(dep), getInnerPath(dep)>>>> \o sym
        \o (IF miss
            THEN <<<<<<dep.filename>>, getInnerPath(dep)>>>> \o sym
            ELSE <<>>)

RECURSIVE FlatFix(_, _)
FlatFix(deps_in_file, miss) ==
    IF deps_in_file = <<>> THEN <<>>
    ELSE fixFileThatDependsOnMe(Head(deps_in_file), miss)
         \o FlatFix(Tail(deps_in_file), miss)

\* changeInstallName over the pairs, in order, the f-th failing: exit(1) at
\* the first failure.
RECURSIVE changeInstallNames(_, _, _, _, _)
changeInstallNames(pairs, file, d, f, idx) ==
    IF pairs = <<>> THEN [log |-> <<>>, disk |-> d, exit |-> FALSE]
    ELSE LET old == Head(pairs)[1]
             new == Head(pairs)[2]
             ok == fileExistsIn(file, d) /\ f # idx
             rest == changeInstallNames(Tail(pairs), file,
                                        Changed(d, file, old, new), f, idx + 1)
         IN  IF ~ok
             THEN [log |-> <<Cmd("change", file, old, new, FALSE)>>,
                   disk |-> d, exit |-> TRUE]
             ELSE [log |-> <<Cmd("change", file, old, new, TRUE)>> \o rest.log,
                   disk |-> rest.disk, exit |-> rest.exit]

\* fixRpathsOnFile(original_file, file_to_fix), the f-th invocation failing:
\* a failure is reported and the loop goes on.
RECURSIVE rewriteRpaths(_, _, _, _, _)
rewriteRpaths(rpaths_to_fix, file, d, f, idx) ==
    IF rpaths_to_fix = <<>> THEN [log |-> <<>>, disk |-> d, exit |-> FALSE]
    ELSE LET old == Head(rpaths_to_fix)
             ok == fileExistsIn(file, d) /\ f # idx
             d1 == IF ok THEN Rpathed(d, file, old, inside_path_str) ELSE d
             rest == rewriteRpaths(Tail(rpaths_to_fix), file, d1, f, idx + 1)
         IN  [log |-> <<Cmd("rpath", file, old, inside_path_str, ok)>>
                      \o rest.log,
              disk |-> rest.disk, exit |-> rest.exit]

fixRpathsOnFile(original_file, file_to_fix, d, f) ==
    LET rpaths_to_fix == IF original_file \in DOMAIN rpaths_per_file
                         THEN rpaths_per_file[original_file] ELSE <<>>
    IN  rewriteRpaths(rpaths_to_fix, file_to_fix, d, f, 1)

\* createDestDir() creating the directory whether or not it may.
createDestDirUnasked(exists, f) ==
    [log |-> IF exists THEN <<>>
             ELSE <<Cmd("mkdir", dest_folder_str, EmptyStr, EmptyStr, TRUE)>>,
     exists |-> TRUE, wiped |-> FALSE, exit |-> FALSE]

\* createDestDir() when the directory exists or not; f = 1 makes rm fail,
\* f = 2 mkdir. wiped: the directory and what it held are gone.
createDestDir(exists, f) ==
    LET erase == exists /\ settings.overwrite_dir
        rmOk == f # 1
        \* dest_exists after the first if
        dest_exists1 == IF erase THEN FALSE ELSE exists
        mkOk == f # 2
        rmLog == IF erase
                 THEN <<Cmd("rm", dest_folder_str, EmptyStr, EmptyStr, rmOk)>>
                 ELSE <<>>
    IN  IF erase /\ ~rmOk
        THEN [log |-> rmLog, exists |-> exists, wiped |-> FALSE, exit |-> TRUE]
        ELSE IF dest_exists1
        THEN [log |-> rmLog, exists |-> TRUE, wiped |-> FALSE, exit |-> FALSE]
        ELSE IF settings.create_dir
        THEN [log |-> rmLog \o <<Cmd("mkdir", dest_folder_str, EmptyStr,
                                     EmptyStr, mkOk)>>,
              exists |-> mkOk, wiped |-> erase, exit |-> ~mkOk]
        ELSE [log |-> rmLog, exists |-> FALSE, wiped |-> erase, exit |-> TRUE]

\* ------------------------------------------------------------ Init

NoCtl == [i |-> 1, n |-> 0, dep_amount |-> 0, phase |-> "collect",
          file |-> NoPath, lines |-> <<>>, k |-> 0, ret |-> "main"]

NoMap == [p \in {} |-> <<>>]

\* What the command line can set: -od sets overwrite_dir and create_dir.
SettingsSet ==
    {[overwrite_files |-> of, overwrite_dir |-> dirs[1], create_dir |-> dirs[2],
      codesign |-> cs, bundleLibs |-> b] :
        of \in BOOLEAN, cs \in BOOLEAN, b \in BOOLEAN,
        dirs \in {<<FALSE, FALSE>>, <<FALSE, TRUE>>, <<TRUE, TRUE>>}}

\* The destination before the first run: absent, empty, or holding a
\* libX.dylib of an earlier bundle.
Stale == File(dest_folder_str, "libX.dylib")
DestStates == {"absent", "empty", "stale"}

Init ==
    /\ world \in {AllWorlds[id] : id \in WorldIds}
    /\ settings \in SettingsSet
    /\ searchPaths = W.search
    /\ \E ds \in DestStates :
        /\ dest_exists = (ds # "absent")
        /\ disk = IF ds = "stale" THEN Put(W.bin, Stale, Bin(<<>>, <<>>))
                  ELSE W.bin
    /\ machine = "unasked"
    /\ deps = <<>>
    /\ deps_per_file = NoMap
    /\ deps_collected = {}
    /\ rpaths_per_file = NoMap
    /\ rpath_to_fullpath = [p \in {} |-> NoPath]
    /\ missing_prefixes = FALSE
    /\ pc = "main"
    /\ ctl = NoCtl
    /\ status = -1
    /\ issued = <<>>
    /\ failures = 0
    /\ run = 1
    /\ passes = 0
    /\ seen = {}
    /\ ended = <<>>

\* ------------------------------------------------------------ collecting

G == [sp |-> searchPaths, rpf |-> rpaths_per_file, cache |-> rpath_to_fullpath,
      miss |-> missing_prefixes]

\* collectRpaths(filename): rpaths_per_file afterwards.
collectRpaths(filename, rpf) ==
    LET real == realpath(filename, disk)
        found == IF real = NoPath THEN <<>> ELSE disk[real].rpaths
        had == IF filename \in DOMAIN rpf THEN rpf[filename] ELSE <<>>
    IN  IF found = <<>> THEN rpf ELSE Put(rpf, filename, had \o found)

Exit(code) == pc' = "exit" /\ status' = code

\* collectDependencies without the test of deps_collected.
BeginCollectAgain(filename, ret, c, rpf) ==
    IF realpath(filename, disk) = NoPath
    THEN Exit(1) /\ ctl' = c /\ rpaths_per_file' = rpf /\ UNCHANGED ended
    ELSE /\ rpaths_per_file' = collectRpaths(filename, rpf)
         /\ pc' = "lines"
         /\ ctl' = [c EXCEPT !.file = filename,
                             !.lines = disk[realpath(filename, disk)].refs,
                             !.k = 1, !.ret = ret]
         /\ UNCHANGED <<status, ended>>

\* collectDependencies(filename) up to the loop over the lines: a no-op for a
\* file already collected, exit(1) for a file otool cannot read.
BeginCollect(filename, ret, c, rpf) ==
    IF filename \in deps_collected
    THEN pc' = ret /\ ctl' = c /\ rpaths_per_file' = rpf
         /\ UNCHANGED <<status, ended>>
    ELSE IF realpath(filename, disk) = NoPath
    THEN Exit(1) /\ ctl' = c /\ rpaths_per_file' = rpf /\ UNCHANGED ended
    ELSE /\ rpaths_per_file' = collectRpaths(filename, rpf)
         /\ pc' = "lines"
         /\ ctl' = [c EXCEPT !.file = filename,
                             !.lines = disk[realpath(filename, disk)].refs,
                             !.k = 1, !.ret = ret]
         /\ UNCHANGED <<status, ended>>

\* main: collectDependencies(Settings::fileToFix(n)) for each file.
MainCollect ==
    /\ pc = "main"
    /\ ctl.i <= Len(files)
    /\ BeginCollect(files[ctl.i], "main", [ctl EXCEPT !.i = @ + 1],
                    rpaths_per_file)
    /\ UNCHANGED <<world, settings, searchPaths, disk, dest_exists, machine,
                   deps, deps_per_file, deps_collected, rpath_to_fullpath,
                   missing_prefixes, issued, failures, run, passes, seen>>

\* addDependency(dep_path, filename) with the Dependency built (c) and the
\* vectors as they are afterwards (a).
AddLine(dep_path, c, a) ==
    /\ searchPaths' = c.g.sp
    /\ rpaths_per_file' = c.g.rpf
    /\ rpath_to_fullpath' = c.g.cache
    /\ missing_prefixes' = c.g.miss
    /\ IF c.quit
       THEN /\ Exit(1)
            /\ UNCHANGED <<ctl, deps, deps_per_file, seen>>
       ELSE /\ deps' = a.deps
            /\ deps_per_file' = a.dpf
            /\ ctl' = [ctl EXCEPT !.k = @ + 1]
            /\ seen' = seen \cup {[ref |-> dep_path, by |-> ctl.file,
                                   dep |-> c.dep]}
            /\ UNCHANGED <<pc, status>>

Built(dep_path, answer, c) ==
    /\ ~c.again
    /\ c.asked \/ answer = Quit
    /\ AddLine(dep_path, c,
               addDependency(c.dep, ctl.file, deps, deps_per_file))

\* One iteration of the loop over the lines of collectDependencies.
CollectLine ==
    /\ pc = "lines"
    /\ ctl.k <= Len(ctl.lines)
    /\ LET dep_path == ctl.lines[ctl.k]
       IN  IF HasFramework(dep_path) \/ isSystemLibrary(dep_path)
           THEN /\ ctl' = [ctl EXCEPT !.k = @ + 1]
                /\ UNCHANGED <<pc, status, deps, deps_per_file, searchPaths,
                               rpaths_per_file, rpath_to_fullpath,
                               missing_prefixes, seen>>
           ELSE \E answer \in Answers :
                    Built(dep_path, answer,
                          Dependency(dep_path, ctl.file, G, answer))
    /\ UNCHANGED <<world, settings, disk, dest_exists, machine, deps_collected,
                   issued, failures, run, passes, ended>>

\* The end of collectDependencies: deps_collected[filename] = true.
CollectDone ==
    /\ pc = "lines"
    /\ ctl.k > Len(ctl.lines)
    /\ deps_collected' = deps_collected \cup {ctl.file}
    /\ pc' = ctl.ret
    /\ UNCHANGED <<world, settings, searchPaths, disk, dest_exists, machine,
                   deps, deps_per_file, rpaths_per_file, rpath_to_fullpath,
                   missing_prefixes, ctl, status, issued, failures, run,
                   passes, seen, ended>>

\* collectSubDependencies: a pass of the while loop begins.
SubPassBegin ==
    /\ \/ pc = "main" /\ ctl.i > Len(files)
       \/ pc = "sub" /\ ctl.n > ctl.dep_amount /\ Len(deps) # ctl.dep_amount
    /\ pc' = "sub"
    /\ ctl' = [ctl EXCEPT !.n = 1, !.dep_amount = Len(deps), !.phase = "sub"]
    /\ passes' = passes + 1
    /\ UNCHANGED <<world, settings, searchPaths, disk, dest_exists, machine,
                   deps, deps_per_file, deps_collected, rpaths_per_file,
                   rpath_to_fullpath, missing_prefixes, status, issued,
                   failures, run, seen, ended>>

\* collectDependencies(original_path), r being what resolving it gave.
SubResolved(answer, r) ==
    /\ ~r.again
    /\ r.asked \/ answer = Quit
    /\ searchPaths' = r.g.sp
    /\ rpath_to_fullpath' = r.g.cache
    /\ IF r.quit
       THEN Exit(1) /\ rpaths_per_file' = r.g.rpf /\ UNCHANGED <<ctl, ended>>
       ELSE BeginCollect(r.fullpath, "sub", [ctl EXCEPT !.n = @ + 1], r.g.rpf)

\* collectSubDependencies: collectDependencies(deps[n].getOriginalPath()).
SubCollect ==
    /\ pc = "sub"
    /\ ctl.n <= ctl.dep_amount
    /\ LET original_path == getOriginalPath(deps[ctl.n])
       IN  \E answer \in Answers :
               SubResolved(answer,
                   IF isRpath(original_path)
                   THEN searchFilenameInRpaths(original_path, original_path,
                                               G, answer)
                   ELSE [fullpath |-> original_path, g |-> G, quit |-> FALSE,
                         asked |-> FALSE, again |-> FALSE])
    /\ UNCHANGED <<world, settings, disk, dest_exists, machine, deps,
                   deps_per_file, deps_collected, missing_prefixes, issued,
                   failures, run, passes, seen>>

\* collectSubDependencies returning after a pass that added Dependencies.
SubDoneEarly ==
    /\ pc = "sub"
    /\ ctl.n > ctl.dep_amount
    /\ pc' = "go"
    /\ UNCHANGED <<world, settings, searchPaths, disk, dest_exists, machine,
                   deps, deps_per_file, deps_collected, rpaths_per_file,
                   rpath_to_fullpath, missing_prefixes, ctl, status, issued,
                   failures, run, passes, seen, ended>>

\* collectSubDependencies returns: the last pass added nothing.
SubDone ==
    /\ pc = "sub"
    /\ ctl.n > ctl.dep_amount
    /\ Len(deps) = ctl.dep_amount
    /\ pc' = "go"
    /\ UNCHANGED <<world, settings, searchPaths, disk, dest_exists, machine,
                   deps, deps_per_file, deps_collected, rpaths_per_file,
                   rpath_to_fullpath, missing_prefixes, ctl, status, issued,
                   failures, run, passes, seen, ended>>

\* ------------------------------------------------------------ installing

\* adhocCodeSign with a workaround whose failures are only reported, on
\* every machine.
adhocCodeSignReporting(file, bad, isArm, crash) ==
    LET step(op) == Cmd(op, file, EmptyStr, EmptyStr, op \notin bad)
    IN  IF ~settings.codesign THEN [log |-> <<>>, code |-> -1]
        ELSE IF "sign" \notin bad THEN [log |-> <<step("sign")>>, code |-> -1]
        ELSE [log |-> <<step("sign"), step("cp_tmp"), step("mv_tmp"),
                        Cmd("rm_tmp", file, EmptyStr, EmptyStr, TRUE),
                        step("resign")>>,
              code |-> -1]

\* adhocCodeSign(file): bad are the steps that return non-zero, crash is the
\* outcome chosen for std::string(NULL) after a failed mkdtemp. code is the
\* exit status, or -1 when the function returns.
adhocCodeSign(file, bad, isArm, crash) ==
    LET step(op) == Cmd(op, file, EmptyStr, EmptyStr, op \notin bad)
        dies(op) == op \in bad /\ isArm
        l1 == <<step("sign")>>
        l2 == l1 \o <<step("cp_tmp")>>
        l3 == l2 \o <<step("mv_tmp")>>
        l4 == l3 \o <<Cmd("rm_tmp", file, EmptyStr, EmptyStr, TRUE),
                      step("resign")>>
    IN  IF ~settings.codesign THEN [log |-> <<>>, code |-> -1]
        ELSE IF "sign" \notin bad THEN [log |-> l1, code |-> -1]
        ELSE IF "mkdtemp" \in bad /\ isArm THEN [log |-> l1, code |-> 1]
        ELSE IF "mkdtemp" \in bad /\ crash THEN [log |-> l1, code |-> 134]
        ELSE IF dies("cp_tmp") THEN [log |-> l2, code |-> 1]
        ELSE IF dies("mv_tmp") THEN [log |-> l3, code |-> 1]
        ELSE [log |-> l4, code |-> IF dies("resign") THEN 1 ELSE -1]

SignSteps == {"sign", "mkdtemp", "cp_tmp", "mv_tmp", "resign"}

\* The file the install loops are at, and the file its rpaths were read from.
Target == IF ctl.phase = "dep" THEN getInstallPath(deps[ctl.n])
          ELSE files[ctl.n]
Original == IF ctl.phase = "dep" THEN getOriginalPath(deps[ctl.n])
            ELSE files[ctl.n]

Failed(log) == {i \in 1..Len(log) : ~log[i].ok}

\* An injected failure is within the budget and did happen.
Inject(f, log) ==
    /\ f # 0 => failures < MaxFailures /\ Failed(log) # {}
    /\ failures' = failures + (IF f # 0 THEN 1 ELSE 0)

Finish ==
    /\ pc' = "exit"
    /\ status' = 0
    /\ ended' = Append(ended, DestFiles(disk))

\* The loop over the files to fix begins.
StartFiles ==
    IF Len(files) >= 1
    THEN /\ pc' = "copy"
         /\ ctl' = [ctl EXCEPT !.phase = "file", !.n = Len(files)]
         /\ UNCHANGED <<status, ended>>
    ELSE Finish /\ UNCHANGED ctl

\* doneWithDeps_go with bundling: createDestDir(), then the first dependency.
CreateDestDir ==
    /\ pc = "go"
    /\ settings.bundleLibs
    /\ \E f \in 0..2 :
        LET r == createDestDir(dest_exists, f)
        IN  /\ Inject(f, r.log)
            /\ issued' = issued \o r.log
            /\ dest_exists' = r.exists
            /\ disk' = IF r.wiped
                       THEN [x \in DOMAIN disk \ DestFiles(disk) |-> disk[x]]
                       ELSE disk
            /\ IF r.exit THEN Exit(1) /\ UNCHANGED <<ctl, ended>>
               ELSE IF Len(deps) >= 1
               THEN /\ pc' = "copy"
                    /\ ctl' = [ctl EXCEPT !.phase = "dep", !.n = Len(deps),
                                          !.dep_amount = Len(deps)]
                    /\ UNCHANGED <<status, ended>>
               ELSE /\ IF Len(files) >= 1
                       THEN /\ pc' = "copy"
                            /\ ctl' = [ctl EXCEPT !.phase = "file",
                                                  !.n = Len(files)]
                            /\ UNCHANGED status
                       ELSE pc' = "exit" /\ status' = 0 /\ UNCHANGED ctl
                    /\ ended' = IF Len(files) >= 1 THEN ended
                                ELSE Append(ended, DestFiles(disk'))
    /\ UNCHANGED <<world, settings, searchPaths, machine, deps, deps_per_file,
                   deps_collected, rpaths_per_file, rpath_to_fullpath,
                   missing_prefixes, run, passes, seen>>

\* doneWithDeps_go without bundling: straight to the files to fix.
SkipBundling ==
    /\ pc = "go"
    /\ ~settings.bundleLibs
    /\ StartFiles
    /\ UNCHANGED <<world, settings, searchPaths, disk, dest_exists, machine,
                   deps, deps_per_file, deps_collected, rpaths_per_file,
                   rpath_to_fullpath, missing_prefixes, issued, failures, run,
                   passes, seen>>

\* deps[n].copyYourself(), or copyFile of a file to fix onto itself.
Copy ==
    /\ pc = "copy"
    /\ \E f \in 0..3 :
        LET r == IF ctl.phase = "dep"
                 THEN copyYourself(deps[ctl.n], disk, dest_exists, f)
                 ELSE copyFile(Target, Target, disk, TRUE, f)
        IN  /\ Inject(f, r.log)
            /\ ctl.phase = "file" => f \in {0, 2}
            /\ issued' = issued \o r.log
            /\ disk' = r.disk
            /\ IF r.exit THEN Exit(1) ELSE pc' = "fix" /\ UNCHANGED status
    /\ UNCHANGED <<world, settings, searchPaths, dest_exists, machine, deps,
                   deps_per_file, deps_collected, rpaths_per_file,
                   rpath_to_fullpath, missing_prefixes, ctl, run, passes,
                   seen, ended>>

\* changeLibPathsOnFile: the file was not collected yet.
FixCollect ==
    /\ pc = "fix"
    /\ Target \notin deps_collected
    /\ BeginCollect(Target, "fix", ctl, rpaths_per_file)
    /\ UNCHANGED <<world, settings, searchPaths, disk, dest_exists, machine,
                   deps, deps_per_file, deps_collected, rpath_to_fullpath,
                   missing_prefixes, issued, failures, run, passes, seen>>

\* changeLibPathsOnFile: fixFileThatDependsOnMe for each of the file's
\* dependencies.
FixPaths ==
    /\ pc = "fix"
    /\ Target \in deps_collected
    /\ LET dpf1 == IF Target \in DOMAIN deps_per_file THEN deps_per_file
                   ELSE deps_per_file @@ (Target :> <<>>)
           pairs == FlatFix(dpf1[Target], missing_prefixes)
       IN  \E f \in 0..Len(pairs) :
           LET r == changeInstallNames(pairs, Target, disk, f, 1)
           IN  /\ Inject(f, r.log)
               /\ deps_per_file' = dpf1
               /\ issued' = issued \o r.log
               /\ disk' = r.disk
               /\ IF r.exit THEN Exit(1) ELSE pc' = "rpath" /\ UNCHANGED status
    /\ UNCHANGED <<world, settings, searchPaths, dest_exists, machine, deps,
                   deps_collected, rpaths_per_file, rpath_to_fullpath,
                   missing_prefixes, ctl, run, passes, seen, ended>>

\* fixRpathsOnFile(original, target).
FixRpaths ==
    /\ pc = "rpath"
    /\ LET count == IF Original \in DOMAIN rpaths_per_file
                    THEN Len(rpaths_per_file[Original]) ELSE 0
       IN  \E f \in 0..count :
           LET r == fixRpathsOnFile(Original, Target, disk, f)
           IN  /\ Inject(f, r.log)
               /\ issued' = issued \o r.log
               /\ disk' = r.disk
               /\ IF r.exit THEN Exit(1) ELSE pc' = "sign" /\ UNCHANGED status
    /\ UNCHANGED <<world, settings, searchPaths, dest_exists, machine, deps,
                   deps_per_file, deps_collected, rpaths_per_file,
                   rpath_to_fullpath, missing_prefixes, ctl, run, passes,
                   seen, ended>>

\* adhocCodeSign(target), then the next dependency or file.
Sign ==
    /\ pc = "sign"
    /\ \E bad \in SUBSET SignSteps, m \in {"arm", "x86"}, crash \in BOOLEAN :
        LET asked == "sign" \in bad
            mach == IF machine = "unasked" /\ asked THEN m ELSE machine
            r == adhocCodeSign(Target, bad, mach = "arm", crash)
        IN  /\ settings.codesign \/ bad = {}
            /\ Cardinality(bad) <= MaxFailures - failures
            /\ bad \ {"mkdtemp"} \subseteq {r.log[i].op : i \in 1..Len(r.log)}
            /\ "mkdtemp" \in bad => asked
            /\ crash => "mkdtemp" \in bad /\ mach # "arm"
            /\ (machine # "unasked" \/ ~asked) => m = "arm"
            /\ machine' = mach
            /\ failures' = failures + Cardinality(bad)
            /\ issued' = issued \o r.log
            /\ IF r.code # -1 THEN Exit(r.code) /\ UNCHANGED <<ctl, ended>>
               ELSE IF ctl.n > 1
               THEN /\ pc' = "copy"
                    /\ ctl' = [ctl EXCEPT !.n = @ - 1]
                    /\ UNCHANGED <<status, ended>>
               ELSE IF ctl.phase = "dep" THEN StartFiles
               ELSE Finish /\ UNCHANGED ctl
    /\ UNCHANGED <<world, settings, searchPaths, disk, dest_exists, deps,
                   deps_per_file, deps_collected, rpaths_per_file,
                   rpath_to_fullpath, missing_prefixes, run, passes, seen>>

\* The pipeline is run again on what the last run left on disk.
Rerun ==
    /\ pc = "exit"
    /\ status = 0
    /\ run < MaxRuns
    /\ run' = run + 1
    /\ searchPaths' = W.search
    /\ deps' = <<>>
    /\ deps_per_file' = NoMap
    /\ deps_collected' = {}
    /\ rpaths_per_file' = NoMap
    /\ rpath_to_fullpath' = [p \in {} |-> NoPath]
    /\ missing_prefixes' = FALSE
    /\ pc' = "main"
    /\ ctl' = NoCtl
    /\ status' = -1
    /\ issued' = <<>>
    /\ failures' = 0
    /\ passes' = 0
    /\ seen' = {}
    /\ UNCHANGED <<world, settings, disk, dest_exists, machine, ended>>

Next ==
    \/ MainCollect
    \/ CollectLine
    \/ CollectDone
    \/ SubPassBegin
    \/ SubCollect
    \/ SubDone
    \/ CreateDestDir
    \/ SkipBundling
    \/ Copy
    \/ FixCollect
    \/ FixPaths
    \/ FixRpaths
    \/ Sign
    \/ Rerun

Spec == Init /\ [][Next]_vars

\* ------------------------------------------------------------ properties

\* The Dependency objects of deps and of every deps_per_file vector.
Bundled ==
    {deps[n] : n \in 1..Len(deps)}
    \cup UNION {{deps_per_file[k][n] : n \in 1..Len(deps_per_file[k])} :
                k \in DOMAIN deps_per_file}

\* The files a cp was issued for.
CopiedFrom == {issued[i].old : i \in {j \in 1..Len(issued) : issued[j].op = "cp"}}

\* ---- C1: destination preparation

\* doneWithDeps_go is about to call createDestDir().
C1_Preparing == pc = "go" /\ settings.bundleLibs
\* The call ended the run with status 1 and issued nothing.
C1_FatalUntouched ==
    /\ pc' = "exit" /\ status' = 1
    /\ issued' = issued /\ disk' = disk /\ dest_exists' = dest_exists

\* C1, as stated: with bundling enabled, createDestDir fails fatally (exit
\* status 1) with zero mutating side effects in every configuration other
\* than (directory exists and overwriteDirectory permitted) or (directory
\* absent and createDirectory permitted).
C1_FatalOutsideTheTwoCases ==
    [][(C1_Preparing
        /\ ~(dest_exists /\ settings.overwrite_dir)
        /\ ~(~dest_exists /\ settings.create_dir))
       => C1_FatalUntouched]_vars

\* C1, amended: with bundling enabled, createDestDir fails fatally (exit
\* status 1) with zero mutating side effects exactly when the directory is
\* absent and createDirectory is not permitted; an existing directory that
\* may not be overwritten is used as it is: nothing is removed, created or
\* changed by the preparation and the run goes on.
C1_FatalOnlyWhenAbsent ==
    [][C1_Preparing
       => /\ (pc' = "exit" /\ status' = 1 /\ issued' = issued)
             <=> (~dest_exists /\ ~settings.create_dir)
          /\ (~dest_exists /\ ~settings.create_dir) => C1_FatalUntouched
          /\ (dest_exists /\ ~settings.overwrite_dir)
             => /\ issued' = issued /\ disk' = disk /\ dest_exists'
                /\ pc' = "copy"]_vars

\* The run ended in createDestDir for want of a directory, after a collection
\* that found two libraries.
C1_Witness ==
    /\ world = WorldChain(2)
    /\ settings.bundleLibs /\ ~settings.create_dir /\ ~dest_exists
    /\ Len(deps) = 2 /\ ctl.n > ctl.dep_amount
    /\ pc = "exit" /\ status = 1 /\ issued = <<>>

\* ---- C2: ignored prefixes

LiesUnder(path, P) == StartsWith(path, WithSlash(P))
LiesDirectlyIn(path, P) == DirOf(path) = WithSlash(P)

\* C2, as stated: a reference whose resolved path lies under an ignore prefix
\* P, directly in P or in a directory nested below it, is never in deps or in
\* a deps_per_file vector and is never copied.
C2_NothingUnderIgnoredPrefix ==
    \A n \in 1..Len(W.ignore) :
        /\ \A d \in Bundled : ~LiesUnder(getOriginalPath(d), W.ignore[n])
        /\ \A from \in CopiedFrom : ~LiesUnder(from, W.ignore[n])

\* C2, amended: a reference whose resolved path lies directly in the directory
\* P of an ignore prefix (its directory part is P) is never in deps or in a
\* deps_per_file vector and is never copied; a directory nested below P is
\* not covered by the prefix.
C2_NothingInIgnoredDirectory ==
    \A n \in 1..Len(W.ignore) :
        /\ \A d \in Bundled : ~LiesDirectlyIn(getOriginalPath(d), W.ignore[n])
        /\ \A from \in CopiedFrom : ~LiesDirectlyIn(from, W.ignore[n])

\* A run that was handed references into the ignored directory, by its path
\* and through a link, resolved them and bundled the rest.
C2_Witness ==
    /\ world = WorldFilter /\ settings.bundleLibs /\ run = 1
    /\ pc = "exit" /\ status = 0 /\ CopiedFrom # {}
    /\ \E s \in seen : /\ s.ref = File(OptIgn, "libI.dylib")
                       /\ fileExists(getOriginalPath(s.dep))
    /\ \E s \in seen : /\ s.ref = File(OptLib, "libI.dylib")
                       /\ getOriginalPath(s.dep) = File(OptIgn, "libI.dylib")

\* ---- C3: system libraries and frameworks

SystemOrFramework(path) ==
    \/ StartsWith(path, UsrLib)
    \/ StartsWith(path, SysLib)
    \/ HasFramework(path)

SetOf(seq) == {seq[n] : n \in 1..Len(seq)}

\* The file a reference handed to addDependency canonicalizes to.
CanonicalOf(s) == realpath(s.ref, disk)
\* The reference canonicalizes to a real file that is a bundling candidate.
Candidate(s) ==
    /\ CanonicalOf(s) # NoPath
    /\ isPrefixBundled(DirOf(CanonicalOf(s)))

\* C4, as stated: for the bundling-candidate reference strings that
\* canonicalize to one real file, deps holds exactly one Dependency for that
\* file, and its alias set is the union of those reference strings.
C4_AliasesAreAllReferences ==
    \A t \in {CanonicalOf(s) : s \in {x \in seen : Candidate(x)}} :
        LET refs == {s.ref : s \in {x \in seen : CanonicalOf(x) = t}}
            at == {n \in 1..Len(deps) : getOriginalPath(deps[n]) = t}
        IN  /\ Cardinality(at) = 1
            /\ \A n \in at : SetOf(deps[n].symlinks) = refs

\* C4, amended: for the reference strings that resolve to files of one file
\* name, all of them bundling candidates that canonicalize to a real file
\* (in particular those that canonicalize to the same real file), met in any
\* order and from any referencing files, deps holds exactly one Dependency
\* of that file name, and its alias set is the set of those reference
\* strings that differ from the path they canonicalize to: a function of the
\* set of references, so the same for every discovery order.
C4_AliasesAreTheOtherNames ==
    \A name \in {s.dep.filename : s \in seen} :
        LET group == {s \in seen : s.dep.filename = name}
            named == {n \in 1..Len(deps) : deps[n].filename = name}
        IN  (\A s \in group : Candidate(s))
            => /\ Cardinality(named) = 1
               /\ \A n \in named :
                    /\ SetOf(deps[n].symlinks)
                       = {s.ref : s \in {x \in group : x.ref # CanonicalOf(x)}}
                    /\ getOriginalPath(deps[n])
                       \in {CanonicalOf(s) : s \in group}

\* The collection is over; libX.dylib was referenced by its own path and by
\* three links, from three files, the links first.
C4_Witness ==
    /\ world = WorldAlias /\ pc = "go" /\ run = 1
    /\ \E s \in seen : s.ref = LibX /\ s.by = ExeB
    /\ \E n \in 1..Len(deps) :
        /\ getOriginalPath(deps[n]) = LibX
        /\ Len(deps[n].symlinks) = 3
        /\ deps[n].symlinks[1] = File(OptLib, "libX.1.dylib")

\* ---- C5: running the pipeline twice

\* C5: a second run of the whole pipeline on the same top-level files, with
\* the same settings and overwriteFiles and overwriteDirectory enabled,
\* leaves the destination directory with the same set of library files as
\* the first run did.
C5_SecondRunSameLibraries ==
    (/\ Len(ended) = 2
     /\ settings.bundleLibs
     /\ settings.overwrite_files
     /\ settings.overwrite_dir)
    => ended[2] = ended[1]

\* ---- C6: the fixed point is reached

\* The distinct libraries found, and the distinct files of the reference
\* graph: the files to fix and the libraries.
GraphLibraries == {getOriginalPath(deps[n]) : n \in 1..Len(deps)}
GraphFiles == SetOf(files) \cup GraphLibraries

\* C6: collectSubDependencies never makes more passes over deps than there
\* are distinct libraries in the reference graph (one pass when there is
\* none), so never more than there are distinct files in it, cyclic or not;
\* and when it returns, its last pass has added no Dependency.
C6_PassesBounded ==
    /\ passes <= Cardinality(GraphFiles)
    /\ passes <= IF GraphLibraries = {} THEN 1 ELSE Cardinality(GraphLibraries)
    /\ pc = "go" => /\ passes >= 1
                    /\ Len(deps) = ctl.dep_amount
                    /\ ctl.n > ctl.dep_amount

\* collectSubDependencies has returned from a cycle of three libraries after
\* three passes.
C6_Witness ==
    /\ world = WorldChain(3) /\ pc = "go"
    /\ Len(deps) = 3 /\ passes = 3
    /\ \A n \in 1..3 : getOriginalPath(deps[n]) \in deps_collected

\* ---- C7: @rpath references and the rpath entries of the file

\* What the i-th rpath entry of file F stands for with suffix S appended:
\* @loader_path is F's directory, an absolute entry is itself.
EntryPath(r, F, S) ==
    Cat(WithSlash(IF r[1] = "@loader_path"
                  THEN ReplaceMarker(r, "@loader_path", DirOf(F))
                  ELSE r), S)

\* The entries of F, in declaration order, under which S exists.
RpathHits(F, S) ==
    {i \in 1..Len(W.bin[F].rpaths) :
        realpath(EntryPath(W.bin[F].rpaths[i], F, S), W.bin) # NoPath}

\* The file the first such entry leads to.
FirstHit(F, S) ==
    realpath(EntryPath(W.bin[F].rpaths[MinOf(RpathHits(F, S))], F, S), W.bin)

\* C7: a reference @rpath/S of a top-level file F that is not found beside F
\* resolves to the file under the first rpath entry of F that holds S,
\* whatever the kind of entry, without a search path or a prompt coming into
\* it; in the scenario A -> [/opt/lib/libX.dylib, @rpath/libY.dylib] with
\* rpath /opt/lib/ the collection cannot end at a prompt, and ends with the
\* Dependencies libX and libY, both in deps_per_file[A], and libX in
\* deps_per_file[/opt/lib/libY.dylib].
C7_FirstRpathEntryWins ==
    /\ \A s \in seen :
        (/\ run = 1
         /\ s.ref[1] = "@rpath"
         /\ s.by \in SetOf(files)
         /\ realpath(Cat(DirOf(s.by), Tail(s.ref)), W.bin) = NoPath
         /\ RpathHits(s.by, Tail(s.ref)) # {})
        => /\ getOriginalPath(s.dep) = FirstHit(s.by, Tail(s.ref))
           /\ searchPaths = W.search
    /\ (world = WorldRpathAbs /\ run = 1)
        => /\ ~(pc = "exit" /\ status = 1 /\ ctl.phase = "collect")
           /\ pc = "go"
              => /\ {getOriginalPath(deps[n]) : n \in 1..Len(deps)}
                    = {LibX, LibY}
                 /\ Len(deps) = 2
                 /\ {getOriginalPath(d) : d \in SetOf(deps_per_file[ExeA])}
                    = {LibX, LibY}
                 /\ LibY \in DOMAIN deps_per_file
                 /\ {getOriginalPath(d) : d \in SetOf(deps_per_file[LibY])}
                    = {LibX}

\* ---- C8: failures that end the run

\* The invocations whose failure the code answers with exit(1).
FatalOps == {"cp", "chmod", "id", "change", "rm", "mkdir"}

\* C8: when the invocation of a copy, a chmod, an install_name_tool -id or
\* -change, or the removal or creation of the destination directory fails,
\* it is the last invocation of the run, and the run has ended with status 1.
C8_FailureEndsRun ==
    \A i \in 1..Len(issued) :
        (issued[i].op \in FatalOps /\ ~issued[i].ok)
        => /\ i = Len(issued)
           /\ pc = "exit" /\ status = 1

\* A run ended by a failing install_name_tool -id after a successful copy,
\* with more dependencies still to install.
C8_Witness ==
    /\ pc = "exit" /\ status = 1
    /\ Len(issued) >= 3
    /\ issued[Len(issued)].op = "id" /\ ~issued[Len(issued)].ok
    /\ issued[Len(issued) - 2].op = "cp" /\ issued[Len(issued) - 2].ok
    /\ ctl.phase = "dep" /\ ctl.n > 1

\* ---- C9: failures of install_name_tool -rpath

\* C9: when an install_name_tool -rpath invocation fails, it is the last
\* invocation of the run, and the run has ended with a nonzero status.
C9_RpathFailureEndsRun ==
    \A i \in 1..Len(issued) :
        (issued[i].op = "rpath" /\ ~issued[i].ok)
        => /\ i = Len(issued)
           /\ pc = "exit" /\ status \notin {0, -1}

\* ---- C10: the signing workaround

\* What adhocCodeSign issues in this step.
SignIssued == SubSeq(issued', Len(issued) + 1, Len(issued'))
\* The steps of the workaround, in order.
FallbackOps == <<"cp_tmp", "mv_tmp", "rm_tmp", "resign">>
\* The steps of it that failed in this step.
FallbackFailed == {j \in 2..Len(SignIssued) : ~SignIssued[j].ok}
\* The codesign invocation of this step failed.
SignFailed == pc = "sign" /\ SignIssued # <<>> /\ ~SignIssued[1].ok
\* After this step the run goes on with the next file, or is over with
\* status 0 when there is none.
GoesOn == pc' = "copy" \/ (pc' = "exit" /\ status' = 0)

\* C10, as stated: when codesign fails on a file and a step of the
\* workaround or the second codesign fails, the run ends with status 1,
\* whatever the machine.
C10_FallbackFailureIsFatal ==
    [][(SignFailed /\ FallbackFailed # {})
       => (pc' = "exit" /\ status' = 1)]_vars

\* C10, amended: when codesign fails on a file, the workaround is run in
\* order on that file (copy to a temporary place, move back, remove the
\* temporary directory, codesign again). On an ARM machine a failing copy,
\* move or second codesign is the last invocation and the run ends with
\* status 1, and the run goes on only if the second codesign succeeded. On
\* any other machine the failure is only reported: every step of the
\* workaround is still run and the run goes on with the next file whether
\* or not the second codesign succeeded.
C10_FallbackFatalOnArmOnly ==
    [][SignFailed
       => /\ SignIssued[1].op = "sign"
          /\ \A j \in 2..Len(SignIssued) :
                /\ SignIssued[j].op = FallbackOps[j - 1]
                /\ SignIssued[j].file = SignIssued[1].file
          /\ Len(SignIssued) < 5 => (pc' = "exit" /\ status' \in {1, 134})
          /\ IF machine' = "arm"
             THEN /\ FallbackFailed # {}
                     => /\ FallbackFailed = {Len(SignIssued)}
                        /\ pc' = "exit" /\ status' = 1
                  /\ (FallbackFailed = {} /\ Len(SignIssued) = 5) => GoesOn
             ELSE /\ machine' = "x86"
                  /\ Len(SignIssued) = 5 => GoesOn
                  /\ FallbackFailed # {} => Len(SignIssued) = 5]_vars

\* On an ARM machine the second codesign failed after the copy and the move,
\* and that ended the run.
C10_Witness ==
    /\ machine = "arm" /\ pc = "exit" /\ status = 1
    /\ Len(issued) >= 5
    /\ issued[Len(issued)].op = "resign" /\ ~issued[Len(issued)].ok
    /\ issued[Len(issued) - 4].op = "sign" /\ ~issued[Len(issued) - 4].ok
    /\ issued[Len(issued) - 3].op = "cp_tmp" /\ issued[Len(issued) - 3].ok

\* ---- C11: asking the user

\* C11: a reference that neither canonicalization nor the search paths
\* locate, and for which the user names a directory holding the library,
\* yields a Dependency whose original path is that directory + filename, an
\* existing file, and the run goes on to inspect that library: the
\* collection ends with status 1 only where the user typed quit. (A
\* Dependency is built without the user quitting only if the file was
\* located or the user named a directory that holds it.)
C11_EscalationRecovers ==
    /\ \A s \in seen :
        (run = 1 /\ isPrefixBundled(s.dep.prefix))
        => fileExistsIn(getOriginalPath(s.dep), W.bin)
    /\ (run = 1 /\ pc = "exit" /\ status = 1 /\ ctl.phase = "sub")
        => \A d \in W.userdirs : ~HasComp(searchPaths, d)

\* ---- C12: the keys of deps_per_file

\* No collectDependencies call is under way and the install phase has not
\* begun.
BetweenInspections == pc \in {"main", "sub", "go"}

\* otool reports for f a load command that collectDependencies hands to
\* addDependency: one that names neither a framework nor a system library.
HandsOver(f) ==
    \E k \in 1..Len(disk[realpath(f, disk)].refs) :
        LET ref == disk[realpath(f, disk)].refs[k]
        IN  ~HasFramework(ref) /\ ~isSystemLibrary(ref)

ChangeIssued(file, old, new) ==
    \E i \in 1..Len(issued) :
        /\ issued[i].op = "change" /\ issued[i].file = file
        /\ issued[i].old = old /\ issued[i].new = new

\* C13: once changeLibPathsOnFile(F) has returned, every load command of F
\* that addDependency took as a library to bundle has been the old name of
\* an install_name_tool -change on F towards the inner path of its
\* Dependency, also when F names the same library by two different strings.
C13_EveryReferenceRewritten ==
    pc = "rpath"
    => \A s \in seen :
        (s.by = Target /\ isPrefixBundled(s.dep.prefix))
        => ChangeIssued(Target, s.ref, getInnerPath(s.dep))

\* ---- C14: the cache of resolved @rpath references

\* C14: once a reference beginning with @rpath/ or @loader_path/ has been
\* resolved to an existing file, by whichever step of
\* searchFilenameInRpaths, rpath_to_fullpath maps the reference to the path
\* that was returned.
C14_ResolvedIsCached ==
    \A s \in seen :
        (isRpath(s.ref) /\ fileExists(getOriginalPath(s.dep)))
        => /\ s.ref \in DOMAIN rpath_to_fullpath
           /\ rpath_to_fullpath[s.ref] = getOriginalPath(s.dep)

\* ---- C15: the order of the install phase

PrepareOps == {"rm", "mkdir"}

\* The place of an operation among the steps taken on one file.
StepOf(op) ==
    CASE op = "cp" -> 1
      [] op = "chmod" -> 2
      [] op = "id" -> 3
      [] op = "change" -> 4
      [] op = "rpath" -> 5
      [] OTHER -> 6

IsInstalled(file) == \E n \in 1..Len(deps) : getInstallPath(deps[n]) = file
DepAt(file) == CHOOSE n \in 1..Len(deps) : getInstallPath(deps[n]) = file
FileAt(file) == CHOOSE n \in 1..Len(files) : files[n] = file

\* Where a command stands in doneWithDeps_go: the preparation of the
\* destination, then the dependencies from the last to the first, then the
\* files to fix from the last to the first; within one file, its step.
Stage(c) ==
    IF c.op \in PrepareOps THEN <<0, 0, 0>>
    ELSE IF IsInstalled(c.file)
    THEN <<1, Len(deps) - DepAt(c.file), StepOf(c.op)>>
    ELSE <<2, Len(files) - FileAt(c.file), StepOf(c.op)>>

NotAfter(a, b) ==
    \/ a[1] < b[1]
    \/ a[1] = b[1] /\ a[2] < b[2]
    \/ a[1] = b[1] /\ a[2] = b[2] /\ a[3] <= b[3]

Copies(file) ==
    {i \in 1..Len(issued) : issued[i].op = "cp" /\ issued[i].file = file}
Identities(file) ==
    {i \in 1..Len(issued) : issued[i].op = "id" /\ issued[i].file = file}

\* C15: with bundling, the commands are issued in the order preparation of
\* the destination, dependencies in reverse order of discovery, files to fix
\* in reverse order of configuration, and on one file in the order copy,
\* identity, references, rpaths, signature; no dependency is copied twice,
\* and a run that ends well has copied and renamed every dependency known
\* when collectSubDependencies returned exactly once.
C15_InstallOrder ==
    settings.bundleLibs
    => /\ \A i \in 1..Len(issued) :
            i > 1 => NotAfter(Stage(issued[i - 1]), Stage(issued[i]))
       /\ \A n \in 1..Len(deps) :
            Cardinality(Copies(getInstallPath(deps[n]))) <= 1
       /\ (pc = "exit" /\ status = 0 /\ ctl.phase = "file")
            => \A n \in 1..Len(deps) :
                 n <= ctl.dep_amount
                 => /\ Cardinality(Copies(getInstallPath(deps[n]))) = 1
                    /\ Cardinality(Identities(getInstallPath(deps[n]))) = 1

\* A run with bundling ended well after two dependencies and two files to
\* fix went through the install phase, the destination having been made.
C15_Witness ==
    /\ settings.bundleLibs /\ pc = "exit" /\ status = 0 /\ run = 1
    /\ ctl.dep_amount >= 2 /\ Len(files) >= 2
    /\ \E i \in 1..Len(issued) : issued[i].op = "mkdir"
    /\ \E i \in 1..Len(issued) : issued[i].op = "change" /\ issued[i].file \in SetOf(files)
    /\ \E i \in 1..Len(issued) : issued[i].op = "change" /\ IsInstalled(issued[i].file)

\* ---- C16: a file is inspected once

\* collectSubDependencies is about to call collectDependencies on a path
\* that is in deps_collected.
AboutToRevisit ==
    /\ pc = "sub" /\ ctl.n <= ctl.dep_amount
    /\ ~isRpath(getOriginalPath(deps[ctl.n]))
    /\ getOriginalPath(deps[ctl.n]) \in deps_collected

\* C16: within one run otool is run at most once on a path: reading the
\* load commands begins only for a path that is not in deps_collected, the
\* path is in deps_collected when the reading is over and stays there; and
\* collectDependencies on a path of deps_collected leaves deps,
\* deps_per_file, rpaths_per_file, rpath_to_fullpath and deps_collected as
\* they are.
C16_InspectedOnce ==
    [][ /\ (pc # "lines" /\ pc' = "lines") => ctl'.file \notin deps_collected
        /\ (pc = "lines" /\ pc' \notin {"lines", "exit"})
              => ctl.file \in deps_collected'
        /\ run' = run => deps_collected \subseteq deps_collected'
        /\ AboutToRevisit
              => /\ pc' = "sub"
                 /\ UNCHANGED <<deps, deps_per_file, rpaths_per_file,
                                rpath_to_fullpath, deps_collected>> ]_vars

\* In the cycle of three libraries the second pass comes back to a library
\* the first pass inspected.
C16_Witness ==
    /\ world = WorldChain(3) /\ passes >= 2 /\ AboutToRevisit

\* ---- C17: the order of the search paths

\* The list the claim describes: the paths of the environment, then the
\* paths given with -s.
EnvThenUser == initSearchPaths \o W.search

SearchHits(filename) ==
    {i \in 1..Len(EnvThenUser) : fileExists(Cat(EnvThenUser[i], <<filename>>))}

\* C17: a library named without a directory, which is therefore looked up
\* in the search paths, gets as prefix the first directory that holds it in
\* the list made of the environment's paths followed by the -s paths.
C17_EnvironmentPathsFirst ==
    \A s \in seen :
        (Len(s.ref) = 1 /\ SearchHits(s.dep.filename) # {})
        => s.dep.prefix = EnvThenUser[MinOf(SearchHits(s.dep.filename))]

\* ---- C18: missing_prefixes

\* The commands a step adds to the log.
NewlyIssued == SubSeq(issued', Len(issued) + 1, Len(issued'))

\* changeLibPathsOnFile(Target) is about to rewrite: Target is collected.
AboutToFix == pc = "fix" /\ Target \in deps_collected

\* install_name_tool -change from the bare file name of dep is among cmds.
BareRewrite(cmds, file, dep) ==
    \E i \in 1..Len(cmds) :
        /\ cmds[i].op = "change" /\ cmds[i].file = file
        /\ cmds[i].old = <<dep.filename>> /\ cmds[i].new = getInnerPath(dep)

HandedOver(f) ==
    {ref \in SetOf(disk[realpath(f, disk)].refs) :
        ~HasFramework(ref) /\ ~isSystemLibrary(ref)}

\* C19: when collectSubDependencies returns, the original path of every
\* Dependency of deps is in deps_collected, and every load command of a
\* collected file that is neither a framework nor a system library was
\* resolved, and unless it resolved into a directory that is not bundled
\* (system, framework, ignored, @executable_path) deps holds a Dependency
\* with the file name it resolved to.
C19_ClosedAtFixedPoint ==
    pc = "go"
    => /\ \A n \in 1..Len(deps) : getOriginalPath(deps[n]) \in deps_collected
       /\ \A f \in deps_collected :
            \A ref \in HandedOver(f) :
                \E s \in seen :
                    /\ s.ref = ref /\ s.by = f
                    /\ isPrefixBundled(s.dep.prefix)
                       => \E n \in 1..Len(deps) :
                              deps[n].filename = s.dep.filename

\* The collection returned after more than one pass with at least three
\* Dependencies, the last of them found in a library's load commands.
C19_Witness ==
    /\ pc = "go" /\ passes >= 2 /\ Len(deps) >= 3
    /\ \E s \in seen : /\ s.by \notin SetOf(files)
                       /\ s.dep.filename = deps[Len(deps)].filename

\* ---- C20: the lists of Dependencies

NoTwoAlike(list) ==
    \A m, n \in 1..Len(list) : list[m].filename = list[n].filename => m = n

\* later keeps the entries of earlier at their places and may add some.
Extends(later, earlier) ==
    /\ Len(earlier) <= Len(later)
    /\ \A n \in 1..Len(earlier) :
        /\ later[n].filename = earlier[n].filename
        /\ later[n].prefix = earlier[n].prefix

\* C20: deps never holds two Dependencies of one file name, nor does a list
\* of deps_per_file; every Dependency of a list of deps_per_file has one
\* of its file name in deps; and within a run both only grow at the end:
\* a step removes or moves no entry and no key.
C20_ListsGrowWithoutDuplicates ==
    [][ /\ NoTwoAlike(deps')
        /\ \A f \in DOMAIN deps_per_file' :
            /\ NoTwoAlike(deps_per_file'[f])
            /\ \A n \in 1..Len(deps_per_file'[f]) :
                \E m \in 1..Len(deps') :
                    deps'[m].filename = deps_per_file'[f][n].filename
        /\ run' = run
           => /\ Extends(deps', deps)
              /\ \A f \in DOMAIN deps_per_file :
                    /\ f \in DOMAIN deps_per_file'
                    /\ Extends(deps_per_file'[f], deps_per_file[f])
      ]_vars

\* One file handed two load commands of one file name to addDependency and
\* its list holds a single Dependency for them, deps holding two or more.
C20_Witness ==
    /\ Len(deps) >= 2
    /\ \E f \in DOMAIN deps_per_file :
        /\ Len(deps_per_file[f]) = 1
        /\ \E s, t \in seen :
            /\ s.by = f /\ t.by = f /\ s.ref # t.ref
            /\ s.dep.filename = t.dep.filename
            /\ isPrefixBundled(s.dep.prefix) /\ isPrefixBundled(t.dep.prefix)

====
